---- MODULE Spec2Model ----
(***************************************************************************)
(* The FAQ search handler of src/index.js, app.get('/faq/search'):         *)
(* query validation, the pagination loop over the Zendesk articles         *)
(* listing, tokenization, scoring, filter / sort / slice / projection and  *)
(* the catch block.  One request is followed from arrival to response.     *)
(* Strings are sequences of one-character strings.                         *)
(***************************************************************************)
EXTENDS Integers, Sequences, FiniteSets, TLC

VARIABLES pc, query, allArticles, nextPage, requests, served, lastFetch,
          scoredItems, error, response

vars == <<pc, query, allArticles, nextPage, requests, served, lastFetch,
          scoredItems, error, response>>

(* ------------------------------ bounds --------------------------------- *)

\* Longest query string received.
MaxQueryLen == 3

\* Length of the Content Source's chain of pages: the page with this number
\* carries no next-page locator.
MaxPages == 3

(* ------------------------- program constants --------------------------- *)

\* .slice(0, 10)
K == 10

\* ?per_page=100
PerPage == 100

TitleHitScore == 10

BodyHitScore == 1

WordBonus == 5

(* ------------------------------ strings -------------------------------- *)

\* The characters of queries, titles and bodies: a letter in both cases, a
\* whitespace character and a regular-expression metacharacter.
Chars == {"a", "A", " ", "+"}

RECURSIVE StringsOfLen(_)
StringsOfLen(n) ==
  IF n = 0 THEN {<<>>}
  ELSE {Append(s, c) : s \in StringsOfLen(n - 1), c \in Chars}

Strings == UNION {StringsOfLen(n) : n \in 0..MaxQueryLen}

\* A JavaScript value that is a string, null or undefined.
Str(s) == [null |-> FALSE, chars |-> s]

NullStr == [null |-> TRUE, chars |-> <<>>]

\* (v || ''): null, undefined and '' all give ''.
OrEmpty(v) == IF v.null THEN <<>> ELSE v.chars

LowerChar(c) == IF c = "A" THEN "a" ELSE c

\* String.prototype.toLowerCase
ToLowerCase(s) == [i \in 1..Len(s) |-> LowerChar(s[i])]

\* \s
IsSpace(c) == c = " "

\* \w
IsWordChar(c) == c \in {"a", "A"}

RECURSIVE SplitFrom(_, _, _, _, _)
SplitFrom(s, i, cur, acc, prevSpace) ==
  IF i > Len(s) THEN Append(acc, cur)
  ELSE IF IsSpace(s[i])
       THEN IF prevSpace
            THEN SplitFrom(s, i + 1, cur, acc, TRUE)
            ELSE SplitFrom(s, i + 1, <<>>, Append(acc, cur), TRUE)
       ELSE SplitFrom(s, i + 1, Append(cur, s[i]), acc, FALSE)

\* s.split(/\s+/): the segments between runs of whitespace, empty ones kept.
Split(s) == SplitFrom(s, 1, <<>>, <<>>, FALSE)

NonEmpty(term) == Len(term) > 0

\* query.toLowerCase().split(/\s+/).filter(term => term.length > 0)
SearchTerms(q) == SelectSeq(Split(ToLowerCase(q)), NonEmpty)

\* String.prototype.includes
Includes(s, t) ==
  \E i \in 1..(Len(s) - Len(t) + 1) : SubSeq(s, i, i + Len(t) - 1) = t

(* ------------------------ the regular expression ----------------------- *)

\* new RegExp(`\\b${term}\\b`) throws a SyntaxError ("nothing to repeat")
\* when a quantifier follows the assertion \b or another quantifier.
ValidPattern(term) ==
  /\ term[1] # "+"
  /\ \A i \in 1..(Len(term) - 1) : ~(term[i] = "+" /\ term[i + 1] = "+")

RECURSIVE Atoms(_, _)
\* The atoms of the pattern, each with its quantifier.
Atoms(term, i) ==
  IF i > Len(term) THEN <<>>
  ELSE IF i < Len(term) /\ term[i + 1] = "+"
       THEN <<[ch |-> term[i], plus |-> TRUE]>> \o Atoms(term, i + 2)
       ELSE <<[ch |-> term[i], plus |-> FALSE]>> \o Atoms(term, i + 1)

\* \b at position i of s: between s[i-1] and s[i].
WordBoundary(s, i) ==
  LET before == i > 1 /\ IsWordChar(s[i - 1])
      after  == i <= Len(s) /\ IsWordChar(s[i])
  IN  before # after

RECURSIVE MatchEnds(_, _, _, _)
\* The positions at which a match of atoms[k..] that starts at i can end.
MatchEnds(atoms, k, s, i) ==
  IF k > Len(atoms) THEN {i}
  ELSE LET a == atoms[k]
           reps == {n \in 1..(Len(s) - i + 1) :
                      /\ a.plus \/ n = 1
                      /\ \A j \in i..(i + n - 1) : s[j] = a.ch}
       IN  UNION {MatchEnds(atoms, k + 1, s, i + n) : n \in reps}

\* title.match(new RegExp(`\\b${term}\\b`)) for a pattern that compiles.
RegExpMatch(title, term) ==
  \E i \in 1..(Len(title) + 1) :
    /\ WordBoundary(title, i)
    /\ \E e \in MatchEnds(Atoms(term, 1), 1, title, i) : WordBoundary(title, e)

(* ------------------------------ scoring -------------------------------- *)

RECURSIVE ScoreTerms(_, _, _, _, _)
\* for (const term of searchTerms) { ... }
ScoreTerms(title, body, terms, i, score) ==
  IF i > Len(terms)
  THEN [score |-> score, allTermsMatch |-> TRUE, threw |-> FALSE]
  ELSE LET term == terms[i]
           titleMatch == Includes(title, term)
           bodyMatch  == Includes(body, term)
       IN  IF ~titleMatch /\ ~bodyMatch
           THEN [score |-> score, allTermsMatch |-> FALSE, threw |-> FALSE]
           ELSE IF ~ValidPattern(term)
           THEN [score |-> score, allTermsMatch |-> TRUE, threw |-> TRUE]
           ELSE ScoreTerms(title, body, terms, i + 1,
                  score + (IF titleMatch THEN TitleHitScore ELSE 0)
                        + (IF bodyMatch THEN BodyHitScore ELSE 0)
                        + (IF RegExpMatch(title, term) THEN WordBonus ELSE 0))

\* The callback of allArticles.map(article => ...).
ScoreArticle(article, terms) ==
  LET r == ScoreTerms(ToLowerCase(OrEmpty(article.title)),
                      ToLowerCase(OrEmpty(article.body)), terms, 1, 0)
  IN  [article |-> article, score |-> r.score,
       allTermsMatch |-> r.allTermsMatch, threw |-> r.threw]

MapScore(articles, terms) ==
  [i \in 1..Len(articles) |-> ScoreArticle(articles[i], terms)]

IsMatched(item) == item.allTermsMatch

KeepAll(items) == items

\* .filter(item => item.allTermsMatch)
KeepMatched(items) == SelectSeq(items, IsMatched)

RECURSIVE InsertBeforeEqual(_, _)
InsertBeforeEqual(sorted, item) ==
  IF sorted = <<>> THEN <<item>>
  ELSE IF Head(sorted).score > item.score
       THEN <<Head(sorted)>> \o InsertBeforeEqual(Tail(sorted), item)
       ELSE <<item>> \o sorted

RECURSIVE InsertByScore(_, _)
\* item goes after every element whose score is at least its own.
InsertByScore(sorted, item) ==
  IF sorted = <<>> THEN <<item>>
  ELSE IF Head(sorted).score >= item.score
       THEN <<Head(sorted)>> \o InsertByScore(Tail(sorted), item)
       ELSE <<item>> \o sorted

RECURSIVE SortFrom(_, _, _)
SortFrom(items, i, sorted) ==
  IF i > Len(items) THEN sorted
  ELSE SortFrom(items, i + 1, InsertByScore(sorted, items[i]))

\* .sort((a, b) => b.score - a.score): Array.prototype.sort is stable.
SortByScore(items) == SortFrom(items, 1, <<>>)

SliceAll(items) == items

\* .slice(0, 10)
Slice(items) == SubSeq(items, 1, IF Len(items) < K THEN Len(items) ELSE K)

\* .map(item => ({ id, title, body: item.article.body || '', html_url }))
Project(item) ==
  [id |-> item.article.id, title |-> item.article.title,
   body |-> OrEmpty(item.article.body), html_url |-> item.article.html_url]

ProjectAll(items) == [i \in 1..Len(items) |-> Project(items[i])]

Threw(items) == \E i \in 1..Len(items) : items[i].threw

(* ----------------------------- responses ------------------------------- *)

NoResponse == [status |-> 0, results |-> <<>>, count |-> 0, error |-> ""]

\* res.status(400).json({ error: 'Query parameter "q" is required' })
BadRequest ==
  [status |-> 400, results |-> <<>>, count |-> 0, error |-> "q is required"]

\* res.status(500).json({ error: 'Internal server error' })
InternalError ==
  [status |-> 500, results |-> <<>>, count |-> 0,
   error |-> "Internal server error"]

\* res.json({ results: scoredResults, count: scoredResults.length })
Success(results) ==
  [status |-> 200, results |-> results, count |-> Len(results), error |-> ""]

(* -------------------------- the Content Source ------------------------- *)

\* A page locator: the URL of a page, or the null / absent next_page of the
\* last page.
Url(n) == [kind |-> "url", page |-> n]

NullLocator == [kind |-> "null", page |-> 0]

UndefinedLocator == [kind |-> "undefined", page |-> 0]

\* `${ZENDESK_B2B_URL}/api/v2/help_center/en-gb/articles.json?per_page=100`
FirstPage == Url(1)

\* The texts of the articles the Content Source serves.
Text1 == [title |-> Str(<<"a">>), body |-> NullStr]

Text2 == [title |-> Str(<<"a", "a">>), body |-> Str(<<"a", "+">>)]

Text3 == [title |-> NullStr, body |-> Str(<<"a">>)]

Text4 == [title |-> Str(<<"A", " ", "a">>), body |-> Str(<<>>)]

Text5 == [title |-> Str(<<"+">>), body |-> Str(<<"A">>)]

Text6 == [title |-> Str(<<"a", "+">>), body |-> Str(<<>>)]

\* The pages the Content Source can answer with.
PageTexts ==
  { <<>>,
    <<Text1, Text2, Text3, Text4, Text5, Text6>>,
    <<Text3, Text6, Text2, Text4, Text1>> }

\* The articles of page p: ids are unique over the listing.
Articles(p, texts) ==
  [i \in 1..Len(texts) |->
     [id |-> p * PerPage + i, title |-> texts[i].title,
      body |-> texts[i].body, html_url |-> p * PerPage + i]]

\* The next_page of page p: the last page of the listing has null.
NextLocators(p) ==
  IF p < MaxPages THEN {Url(p + 1), NullLocator} ELSE {NullLocator}

\* The bodies response.json() can resolve to for page p: a page of the
\* listing, or a body with neither articles nor next_page.
PageData(p) ==
  {[hasArticles |-> TRUE, articles |-> Articles(p, t), next_page |-> n] :
     t \in PageTexts, n \in NextLocators(p)}
  \cup {[hasArticles |-> FALSE, articles |-> <<>>,
          next_page |-> UndefinedLocator]}

\* The values of req.query.q: absent, not a string (?q=a&q=b), or a string.
QueryValues ==
  {[kind |-> "undefined", chars |-> <<>>], [kind |-> "array", chars |-> <<>>]}
  \cup {[kind |-> "string", chars |-> s] : s \in Strings}

(* ------------------------------ the handler ---------------------------- *)

Init ==
  /\ pc = "idle"
  /\ query = [kind |-> "undefined", chars |-> <<>>]
  /\ allArticles = <<>>
  /\ nextPage = UndefinedLocator
  /\ requests = <<>>
  /\ served = <<>>
  /\ lastFetch = "none"
  /\ scoredItems = <<>>
  /\ error = "none"
  /\ response = NoResponse

\* !query || typeof query !== 'string'
InvalidQuery(q) == q.kind # "string" \/ q.chars = <<>>

AlwaysTruthy(locator) == TRUE

\* while (nextPage): null, undefined and '' end the loop.
Truthy(locator) == locator.kind = "url"

ConcatReplace(articles, page) == page

\* allArticles.concat(...)
Concat(articles, page) == articles \o page

\* data.articles || []
ArticlesOrEmpty(data) == IF data.hasArticles THEN data.articles ELSE <<>>

\* Lines 244-285 and the catch block for an exception thrown in them.
Finish(articles) ==
  LET items == MapScore(articles, SearchTerms(query.chars))
  IN  /\ pc' = "done"
      /\ IF Threw(items)
         THEN /\ error' = "SyntaxError"
              /\ response' = InternalError
              /\ UNCHANGED scoredItems
         ELSE /\ scoredItems' = items
              /\ response' =
                   Success(ProjectAll(Slice(SortByScore(KeepMatched(items)))))
              /\ UNCHANGED error

\* The head of the while loop: the next fetch is issued, or the loop ends.
LoopHead(articles, locator) ==
  IF Truthy(locator)
  THEN /\ requests' = Append(requests, locator)
       /\ pc' = "fetch"
       /\ UNCHANGED <<scoredItems, error, response>>
  ELSE /\ Finish(articles)
       /\ UNCHANGED requests

\* The request arrives: validation, then up to the first await fetch(...).
Request(q) ==
  /\ pc = "idle"
  /\ query' = q
  /\ UNCHANGED <<served, lastFetch>>
  /\ IF InvalidQuery(q)
     THEN /\ response' = BadRequest
          /\ pc' = "done"
          /\ UNCHANGED <<allArticles, nextPage, requests, scoredItems, error>>
     ELSE /\ allArticles' = <<>>
          /\ nextPage' = FirstPage
          /\ LoopHead(<<>>, FirstPage)

\* The Content Source answers the pages of its listing.
Answers == requests[Len(requests)].kind = "url" /\ Len(requests) <= MaxPages

\* await fetch(nextPage) resolves: on a non-success status the loop breaks.
FetchResolve(ok) ==
  /\ pc = "fetch"
  /\ Answers
  /\ UNCHANGED <<query, allArticles, nextPage, served>>
  /\ IF ok
     THEN /\ lastFetch' = "ok"
          /\ pc' = "json"
          /\ UNCHANGED <<requests, scoredItems, error, response>>
     ELSE /\ lastFetch' = "status"
          /\ Finish(allArticles)
          /\ UNCHANGED requests

\* await fetch(nextPage) rejects: the catch block answers.
FetchReject ==
  /\ pc = "fetch"
  /\ lastFetch' = "rejected"
  /\ error' = "fetch failed"
  /\ response' = InternalError
  /\ pc' = "done"
  /\ UNCHANGED <<query, allArticles, nextPage, requests, served, scoredItems>>

\* await response.json() resolves: the page is appended and the loop goes on.
JsonResolve(data) ==
  /\ pc = "json"
  /\ served' = Append(served, data)
  /\ allArticles' = Concat(allArticles, ArticlesOrEmpty(data))
  /\ nextPage' = data.next_page
  /\ LoopHead(allArticles', data.next_page)
  /\ UNCHANGED <<query, lastFetch>>

\* await response.json() rejects: the catch block answers.
JsonReject ==
  /\ pc = "json"
  /\ lastFetch' = "rejected"
  /\ error' = "invalid json"
  /\ response' = InternalError
  /\ pc' = "done"
  /\ UNCHANGED <<query, allArticles, nextPage, requests, served, scoredItems>>

Next ==
  \/ \E q \in QueryValues : Request(q)
  \/ \E ok \in BOOLEAN : FetchResolve(ok)
  \/ FetchReject
  \/ \E data \in PageData(Len(requests)) : JsonResolve(data)
  \/ JsonReject

Spec == Init /\ [][Next]_vars

\* An awaited promise settles: the fetch or the body read resolves or rejects.
Settles ==
  \/ FetchReject
  \/ JsonReject
  \/ \E ok \in BOOLEAN : FetchResolve(ok)
  \/ \E data \in PageData(Len(requests)) : JsonResolve(data)

\* Every promise the handler awaits settles.
FairSpec == Spec /\ WF_vars(Settles)

(* ------------------------ definitions of the claims -------------------- *)

Done == pc = "done"

Succeeded == Done /\ response.status = 200

\* The tokens of the query of the request.
Tokens == SearchTerms(query.chars)

RECURSIVE Flatten(_)
\* The documents of the pages served, in page arrival order then in-page order.
Flatten(pages) ==
  IF pages = <<>> THEN <<>>
  ELSE Flatten(SubSeq(pages, 1, Len(pages) - 1)) \o pages[Len(pages)].articles

\* The token occurs in the title as a whole word, the token taken literally.
LiteralWholeWord(title, term) ==
  \E i \in 1..(Len(title) - Len(term) + 1) :
    /\ SubSeq(title, i, i + Len(term) - 1) = term
    /\ WordBoundary(title, i)
    /\ WordBoundary(title, i + Len(term))

RECURSIVE LiteralScore(_, _, _)
\* The sum over the tokens from the i-th on of +10, +1 and +5.
LiteralScore(article, terms, i) ==
  IF i > Len(terms) THEN 0
  ELSE LET title == ToLowerCase(OrEmpty(article.title))
           body  == ToLowerCase(OrEmpty(article.body))
       IN  (IF Includes(title, terms[i]) THEN 10 ELSE 0)
           + (IF Includes(body, terms[i]) THEN 1 ELSE 0)
           + (IF LiteralWholeWord(title, terms[i]) THEN 5 ELSE 0)
           + LiteralScore(article, terms, i + 1)

\* Every token occurs in the lowercased title or the lowercased body.
AllTokensIn(title, body, terms) ==
  \A i \in 1..Len(terms) :
    \/ Includes(ToLowerCase(title), terms[i])
    \/ Includes(ToLowerCase(body), terms[i])

\* The positions of the matched documents in the scored corpus.
MatchedIdx == {i \in 1..Len(scoredItems) : scoredItems[i].allTermsMatch}

\* Document i goes before document j: a higher score, or the same score and
\* an earlier place in the corpus.
GoesBefore(i, j) ==
  \/ scoredItems[i].score > scoredItems[j].score
  \/ scoredItems[i].score = scoredItems[j].score /\ i < j

RankOf(i) == Cardinality({j \in MatchedIdx : GoesBefore(j, i)}) + 1

MinOf(a, b) == IF a < b THEN a ELSE b

\* The results are the first K matched documents of the scored corpus in the
\* order GoesBefore.
ResultsAreRanking ==
  /\ Len(response.results) = MinOf(K, Cardinality(MatchedIdx))
  /\ \A i \in MatchedIdx :
       RankOf(i) <= K
         => response.results[RankOf(i)].id = scoredItems[i].article.id

\* The corpus that was scored is the documents of the pages served.
ScoredServed ==
  /\ Len(scoredItems) = Len(Flatten(served))
  /\ \A i \in 1..Len(scoredItems) :
       scoredItems[i].article = Flatten(served)[i]

WhitespaceOnly(q) ==
  q.kind = "string" /\ \A i \in 1..Len(q.chars) : IsSpace(q.chars[i])

HasMetaToken ==
  /\ query.kind = "string"
  /\ \E i \in 1..Len(Tokens) : \E j \in 1..Len(Tokens[i]) : Tokens[i][j] = "+"

\* The latest response of the Content Source ends the pagination.
Terminating ==
  \/ lastFetch \in {"status", "rejected"}
  \/ served # <<>> /\ nextPage.kind # "url"

(* -------------------------------- claims ------------------------------- *)

\* C1: a query of whitespace only is rejected with 400 and no page of the
\* Content Source is requested.
C1_WhitespaceRejected ==
  (pc # "idle" /\ WhitespaceOnly(query))
    => (requests = <<>> /\ (Done => response.status = 400))

\* C2: a query with a token that holds a regex metacharacter is answered
\* with success whatever the corpus, and its token is matched literally in
\* the whole-word test.
C2_MetacharLiteral ==
  (Done /\ HasMetaToken /\ lastFetch # "rejected")
    => /\ response.status = 200
       /\ \A i \in MatchedIdx :
            scoredItems[i].score = LiteralScore(scoredItems[i].article, Tokens, 1)

\* C3: a query with at least one token is answered with success whatever
\* the Content Source does.
C3_OnlyInvalidQueryFails ==
  (Done /\ query.kind = "string" /\ Tokens # <<>>) => response.status = 200

\* C4: after a non-success status following k successful pages no further
\* page is requested and the response is a success over the k pages.
C4_PartialCorpusSucceeds ==
  (Done /\ lastFetch = "status")
    => /\ Len(requests) = Len(served) + 1
       /\ response.status = 200
       /\ ScoredServed
       /\ ResultsAreRanking

\* C5: a success response has at most K results and count is their number.
C5_AtMostK ==
  Succeeded
    => /\ Len(response.results) <= K
       /\ response.count = Len(response.results)

C5_Witness ==
  /\ Succeeded
  /\ Len(response.results) = K
  /\ Cardinality(MatchedIdx) > K

\* C6: every returned document has every token of the query in its
\* lowercased title or its lowercased body.
C6_AllTokensMatch ==
  Succeeded
    => \A i \in 1..Len(response.results) :
         AllTokensIn(OrEmpty(response.results[i].title),
                     response.results[i].body, Tokens)

C6_Witness ==
  /\ Succeeded
  /\ Tokens # <<>>
  /\ response.results # <<>>
  /\ Len(response.results) < Len(allArticles)
  /\ Len(allArticles) <= K

\* C7: the results are the first K matched documents in the order of score
\* descending, documents of equal score in corpus order.
C7_StableRanking ==
  Succeeded
    => /\ ResultsAreRanking
       /\ \A i \in 1..(Len(response.results) - 1) :
            \E m, n \in MatchedIdx :
              /\ response.results[i].id = scoredItems[m].article.id
              /\ response.results[i + 1].id = scoredItems[n].article.id
              /\ scoredItems[m].score >= scoredItems[n].score
              /\ scoredItems[m].score = scoredItems[n].score => m < n

C7_Witness ==
  /\ Succeeded
  /\ Cardinality(MatchedIdx) > K
  /\ \E i, j \in MatchedIdx :
       /\ i < j /\ RankOf(j) = RankOf(i) + 1 /\ RankOf(j) <= K
       /\ scoredItems[i].score = scoredItems[j].score
  /\ \E i, j \in MatchedIdx : i < j /\ RankOf(j) < RankOf(i)

\* C8: when every page request succeeds the corpus scored is the
\* concatenation of the pages in arrival order, the pages were requested one
\* after the other from the first-page locator along the next-page locators,
\* and nothing is scored before the last page was received.
C8_CompleteCorpus ==
  /\ ~Done => (scoredItems = <<>> /\ response = NoResponse)
  /\ (Done /\ lastFetch = "ok")
       => /\ allArticles = Flatten(served)
          /\ Len(requests) = Len(served)
          /\ requests[1] = FirstPage
          /\ \A i \in 2..Len(requests) : requests[i] = served[i - 1].next_page
          /\ \A i \in 1..Len(requests) : requests[i] = Url(i)
          /\ served[Len(served)].next_page.kind # "url"
          /\ error = "none" => ScoredServed

C8_Witness ==
  /\ Succeeded
  /\ lastFetch = "ok"
  /\ Len(served) = 3
  /\ Len(allArticles) = 17
  /\ Len(scoredItems) = 17

\* C9: the score of a matched document is the sum over the tokens of +10
\* for a title hit, +1 for a body hit and +5 for a whole-word occurrence of
\* the token in the title.
C9_ScoreFormula ==
  \A i \in MatchedIdx :
    scoredItems[i].score = LiteralScore(scoredItems[i].article, Tokens, 1)

\* C10: the pagination loop ends and a response is sent once the chain of
\* next-page locators ends, and no page is requested after the response that
\* ends it.
C10_Terminates ==
  /\ [](pc \in {"fetch", "json"} => <>(Done /\ response.status # 0))
  /\ [][Terminating' => requests' = requests]_vars
  /\ [](Terminating => Done)

C10_Witness ==
  /\ Done
  /\ Len(requests) >= 2
  /\ Terminating
  /\ response.status = 200

====
